---- MODULE Spec2Model ----
(***************************************************************************)
(* Segmentation of an assembly listing into subroutines (subroutine.go):   *)
(* the .globl scanner, the boundary resolver with its closure loop, the    *)
(* epilogue/prologue trimming and the length-prefixed symbol-name decoder. *)
(*                                                                         *)
(* Go indices are kept 0-based in the state; At/Slice translate them to    *)
(* TLA+ sequences.  A string is a sequence of characters (or lexemes).     *)
(***************************************************************************)
EXTENDS Integers, Sequences, FiniteSets, TLC

VARIABLES
    src,          \* the listing handed to segmentSource: src[0:len(src)]
    spare,        \* cap(src) - len(src): zero-valued slots behind the listing
    pc,           \* position inside segmentSource
    err,          \* which panic ended the run ("none" while running)
    globals,      \* result of splitOnGlobals
    iglobal,      \* loop variable of segmentSource (0-based)
    splitBegin,   \* segmentSource's splitBegin
    lineRet,      \* index of the return found for the current global
    bodyStart,    \* extractSubroutine's bodyStart
    bodyEnd,      \* extractSubroutine's bodyEnd
    iters,        \* extensions done by the closure loop for the current global
    subroutines,  \* the result being built
    produced,     \* per produced subroutine: the window and ranges it came from
    frags,        \* decoder round trip: the fragments that were encoded
    token,        \* decoder round trip: the token handed to extractName
    decoded,      \* decoder round trip: what extractName returned
    dpc           \* decoder round trip: position

vars == <<src, spare, pc, err, globals, iglobal, splitBegin, lineRet, bodyStart,
          bodyEnd, iters, subroutines, produced, frags, token, decoded, dpc>>

segVars == <<src, spare, pc, err, globals, iglobal, splitBegin, lineRet,
             bodyStart, bodyEnd, iters, subroutines, produced>>

decVars == <<frags, token, decoded, dpc>>

-----------------------------------------------------------------------------
(* Bounds of the model.                                                    *)

MaxLen == 6       \* lines of a listing of the layout family
MaxTokLen == 4    \* lines of a listing of the operand family
MaxBody == 4      \* lines after the header in a listing of the body family
MaxIters == 5     \* closure-loop extensions followed per global
MaxFrags == 2     \* fragments of an encoded token
MaxFragLen == 2   \* characters of one fragment

-----------------------------------------------------------------------------
(* Strings.                                                                *)

Digits == <<"0", "1", "2", "3", "4", "5", "6", "7", "8", "9">>

\* unicode.IsDigit on the characters of the model
IsDigit(ch) == \E i \in 1..10 : Digits[i] = ch

DigitVal(ch) == (CHOOSE i \in 1..10 : Digits[i] = ch) - 1

\* strconv.Atoi on a run of digits, saturated at limit; the error of the
\* empty run is dropped by the caller, which then reads 0.  The caller only
\* compares digits + length with len(part): a length above len(part), the
\* value clamped on a range error and the wrapped sum all end in the same
\* slice-bounds panic, so the saturation at len(part) + 1 loses nothing.
RECURSIVE AtoiFrom(_, _, _)
AtoiFrom(ds, acc, limit) ==
    IF ds = <<>> THEN acc
    ELSE LET v == 10 * acc + DigitVal(Head(ds))
         IN  AtoiFrom(Tail(ds), IF v > limit THEN limit ELSE v, limit)

Atoi(ds, limit) == AtoiFrom(ds, 0, limit)

\* number of leading digits of part
RECURSIVE LeadingDigits(_)
LeadingDigits(part) ==
    IF part = <<>> \/ ~IsDigit(part[1]) THEN 0
    ELSE 1 + LeadingDigits(Tail(part))

\* strings.Join(parts, "")
RECURSIVE Join(_)
Join(parts) ==
    IF parts = <<>> THEN <<>> ELSE Head(parts) \o Join(Tail(parts))

\* strings.HasPrefix
HasPrefix(s, p) == Len(p) <= Len(s) /\ SubSeq(s, 1, Len(p)) = p

-----------------------------------------------------------------------------
(* Symbol name decoder.                                                    *)

\* extractNamePart: (digits + length, part[digits : digits+length]); the
\* slice expression panics when digits + length exceeds len(part)
extractNamePart(part) ==
    LET digits == LeadingDigits(part)
        length == Atoi(SubSeq(part, 1, digits), Len(part) + 1)
    IN  IF digits + length > Len(part)
        THEN [ok |-> FALSE, size |-> 0, part |-> <<>>]
        ELSE [ok |-> TRUE, size |-> digits + length,
              part |-> SubSeq(part, digits + 1, digits + length)]

\* the inner loop cut to a single pass (an `if` where the code has a `for`)
ExtractLoopOnce(name, index, parts) ==
    IF index >= Len(name) THEN [ok |-> TRUE, val |-> Join(parts)]
    ELSE LET r == extractNamePart(SubSeq(name, index + 1, Len(name)))
         IN  IF ~r.ok THEN [ok |-> FALSE, val |-> <<>>]
             ELSE [ok |-> TRUE, val |-> Join(Append(parts, r.part))]

\* the inner loop of extractName: for index < len(name) { ... }
RECURSIVE ExtractLoop(_, _, _)
ExtractLoop(name, index, parts) ==
    IF index >= Len(name) THEN [ok |-> TRUE, val |-> Join(parts)]
    ELSE LET r == extractNamePart(SubSeq(name, index + 1, Len(name)))
         IN  IF ~r.ok THEN [ok |-> FALSE, val |-> <<>>]
             ELSE IF r.size = 0 THEN [ok |-> TRUE, val |-> Join(parts)]
             ELSE ExtractLoop(name, index + r.size, Append(parts, r.part))

\* extractName: decode from the first digit of the token on; ok = FALSE is
\* the slice-bounds panic of extractNamePart
extractName(name) ==
    LET ds == {i \in 1..Len(name) : IsDigit(name[i])}
    IN  IF ds = {} THEN [ok |-> TRUE, val |-> <<>>]
        ELSE LET first == CHOOSE i \in ds : \A j \in ds : i <= j
             IN  ExtractLoop(name, first - 1, <<>>)

-----------------------------------------------------------------------------
(* The listing.  A line is a record [k, a]: its kind and its operand.  Its *)
(* text, for the string operations the code applies to raw lines, is a     *)
(* sequence of lexemes and characters.                                     *)

Line(k, a) == [k |-> k, a |-> a]

Blank == Line("blank", <<>>)          \* "": the zero value of a spare slot
Ret == Line("ret", <<>>)              \* "ret"
Mov == Line("mov", <<>>)              \* an instruction of no special shape
Pop == Line("pop", <<>>)              \* an epilogue-shaped instruction
Push == Line("push", <<>>)            \* a prologue-shaped instruction
Comment == Line("comment", <<>>)      \* a comment-only line
Globl(t) == Line("globl", t)          \* ".globl <t>"
Label(n) == Line("label", n)          \* "<n>:"
Jcc(n) == Line("jcc", n)              \* a conditional jump to <n>
Jmp(n) == Line("jmp", n)              \* "jmp <n>"

Text(line) ==
    CASE line.k = "globl" -> <<".globl", " ">> \o line.a
      [] line.k = "label" -> line.a \o <<":">>
      [] line.k = "jcc" -> <<"jne", " ">> \o line.a
      [] line.k = "jmp" -> <<"jmp", " ">> \o line.a
      [] line.k = "ret" -> <<"ret">>
      [] line.k = "mov" -> <<"mov", " ">>
      [] line.k = "pop" -> <<"pop", " ">>
      [] line.k = "push" -> <<"push", " ">>
      [] line.k = "comment" -> <<"#", "#">>
      [] OTHER -> <<>>

\* lines[i] and lines[lo:hi] with Go's 0-based indices
At(lines, i) == lines[i + 1]
Slice(lines, lo, hi) == SubSeq(lines, lo + 1, hi)

\* strings.Contains(line, ".globl")
ContainsGlobl(line) == \E i \in 1..Len(Text(line)) : Text(line)[i] = ".globl"

\* strings.TrimSpace
RECURSIVE TrimLeft(_)
TrimLeft(s) == IF s # <<>> /\ s[1] = " " THEN TrimLeft(Tail(s)) ELSE s
RECURSIVE TrimRight(_)
TrimRight(s) ==
    IF s # <<>> /\ s[Len(s)] = " " THEN TrimRight(SubSeq(s, 1, Len(s) - 1)) ELSE s
TrimSpace(s) == TrimRight(TrimLeft(s))

\* strings.TrimSpace(strings.Split(line, ".globl")[1]): the text between the
\* first ".globl" and the next one (or the end of the line), trimmed
Scrambled(line) ==
    LET t == Text(line)
        at == {i \in 1..Len(t) : t[i] = ".globl"}
        first == CHOOSE i \in at : \A j \in at : i <= j
        later == {i \in at : i > first}
        stop == IF later = {} THEN Len(t) + 1
                ELSE CHOOSE i \in later : \A j \in later : i <= j
    IN  TrimSpace(SubSeq(t, first + 1, stop - 1))

\* regexpRet (^\s*ret) matches the line
IsRet(line) == line.k = "ret"

\* stripComments: (cleaned line, comment-only?)
stripComments(line) ==
    IF line.k = "comment" THEN [line |-> Blank, skip |-> TRUE]
    ELSE [line |-> line, skip |-> FALSE]

\* fixLabels: the label the line defines, <<>> for none
fixLabels(line) == IF line.k = "label" THEN line.a ELSE <<>>

\* upperCaseJumps: (mnemonic, target label) of a jump, <<>> for none
upperCaseJumps(line) ==
    CASE line.k = "jmp" -> [jump |-> "JMP", label |-> line.a]
      [] line.k = "jcc" -> [jump |-> "JNE", label |-> line.a]
      [] OTHER -> [jump |-> "", label |-> <<>>]

isEpilogueInstruction(line) == line.k \in {"pop", "ret"}

IsPrologueInstruction(line) == line.k = "push"

\* extractEpilogueInfo: the range it is given, as an Epilogue
extractEpilogueInfo(lines, start, end) == [Start |-> start, End |-> end]

-----------------------------------------------------------------------------
(* Global directive scanner.                                               *)

\* findLabel that looks for the decoded name instead of the raw operand
findLabelDecoded(lines, label) ==
    LET labelDef == extractName(label).val \o <<":">>
        hits == {i \in 0..(Len(lines) - 1) : HasPrefix(Text(At(lines, i)), labelDef)}
    IN  IF hits = {} THEN [ok |-> FALSE, index |-> 0]
        ELSE [ok |-> TRUE, index |-> CHOOSE i \in hits : \A j \in hits : i <= j]

\* findLabel: index of the first line that starts with label + ":", searched
\* from line 0; ok = FALSE is panic("Failed to find label")
findLabel(lines, label) ==
    LET labelDef == label \o <<":">>
        hits == {i \in 0..(Len(lines) - 1) : HasPrefix(Text(At(lines, i)), labelDef)}
    IN  IF hits = {} THEN [ok |-> FALSE, index |-> 0]
        ELSE [ok |-> TRUE, index |-> CHOOSE i \in hits : \A j \in hits : i <= j]

Global(d, n, l) == [dotGlobalLine |-> d, globalName |-> n, globalLabelLine |-> l]

\* the loop of splitOnGlobals from line index on; the first panic ends it
RECURSIVE SplitFrom(_, _, _)
SplitFrom(lines, index, result) ==
    IF index >= Len(lines) THEN [err |-> "none", globals |-> result]
    ELSE IF ~ContainsGlobl(At(lines, index)) THEN SplitFrom(lines, index + 1, result)
    ELSE LET scrambled == Scrambled(At(lines, index))
             name == extractName(scrambled)
             labelLine == findLabel(lines, scrambled)
         IN  IF ~name.ok THEN [err |-> "SliceBounds", globals |-> <<>>]
             ELSE IF ~labelLine.ok THEN [err |-> "MissingLabel", globals |-> <<>>]
             ELSE SplitFrom(lines, index + 1,
                            Append(result, Global(index, name.val, labelLine.index)))

splitOnGlobals(lines) == SplitFrom(lines, 0, <<>>)

-----------------------------------------------------------------------------
(* Boundary resolver.                                                      *)

\* the listing with the spare slots of its backing array
Backing == src \o [i \in 1..spare |-> Blank]

\* whether the slice expression src[lo:hi] is within bounds
SliceOk(lo, hi) == 0 <= lo /\ lo <= hi /\ hi <= Len(src) + spare

\* the labels a window defines, and the targets of its jumps
labelMap(window) ==
    {fixLabels(stripComments(window[i]).line) : i \in 1..Len(window)} \ {<<>>}

jumpMap(window) ==
    {upperCaseJumps(stripComments(window[i]).line).label : i \in 1..Len(window)}
        \ {<<>>}

\* getMissingLabels that collects the targets of unconditional jumps only
getMissingLabelsJmpOnly(window) ==
    LET jumps == {upperCaseJumps(window[i]).label :
                    i \in {j \in 1..Len(window) : window[j].k = "jmp"}}
    IN  [ok |-> TRUE, missing |-> jumps \ labelMap(window)]

\* getMissingLabels: the jump targets the window does not define; ok = FALSE
\* is panic("label not found"), a defined label no jump of the window names
getMissingLabels(window) ==
    IF labelMap(window) \subseteq jumpMap(window)
    THEN [ok |-> TRUE, missing |-> jumpMap(window) \ labelMap(window)]
    ELSE [ok |-> FALSE, missing |-> {}]

\* first loop of getMissingLines: scan until the missing labels are found
RECURSIVE ScanLabels(_, _, _)
ScanLabels(lines, iline, missing) ==
    IF missing = {} \/ iline >= Len(lines) THEN iline
    ELSE ScanLabels(lines, iline + 1, missing \ {fixLabels(At(lines, iline))})

\* second loop of getMissingLines: scan until an unconditional JMP
RECURSIVE ScanJmp(_, _)
ScanJmp(lines, iline) ==
    IF iline >= Len(lines) THEN iline
    ELSE IF upperCaseJumps(At(lines, iline)).jump = "JMP" THEN iline
    ELSE ScanJmp(lines, iline + 1)

\* getMissingLines that leaves the closing JMP out of the window
getMissingLinesShort(lines, from, missing) ==
    ScanJmp(lines, ScanLabels(lines, from, missing)) - from - 1

\* getMissingLines: how many lines to add after line `from` (the code's
\* lineRet parameter, called with bodyEnd-1)
getMissingLines(lines, from, missing) ==
    ScanJmp(lines, ScanLabels(lines, from, missing)) - from

-----------------------------------------------------------------------------
(* Epilogue and prologue.                                                  *)

\* the backward scan of extractEpilogue from the return at k
RECURSIVE EpilogueStart(_, _)
EpilogueStart(lines, k) ==
    IF k < 0 THEN k
    ELSE IF ~isEpilogueInstruction(At(lines, k)) THEN k + 1
    ELSE EpilogueStart(lines, k - 1)

\* extractEpilogue: ok = FALSE is panic("Failed to find 'ret' instruction")
extractEpilogue(lines) ==
    LET rets == {i \in 0..(Len(lines) - 1) : IsRet(At(lines, i))}
    IN  IF rets = {} THEN [ok |-> FALSE, epilogue |-> [Start |-> 0, End |-> 0]]
        ELSE LET iline == CHOOSE i \in rets : \A j \in rets : i <= j
             IN  [ok |-> TRUE,
                  epilogue |-> extractEpilogueInfo(lines, EpilogueStart(lines, iline),
                                                   iline + 1)]

\* the loop of getPrologueLines: the index the range loop stops at
RECURSIVE PrologueScan(_, _)
PrologueScan(lines, index) ==
    IF index >= Len(lines) THEN (IF Len(lines) = 0 THEN 0 ELSE Len(lines) - 1)
    ELSE IF stripComments(At(lines, index)).skip THEN PrologueScan(lines, index + 1)
    ELSE IF ~IsPrologueInstruction(stripComments(At(lines, index)).line) THEN index
    ELSE PrologueScan(lines, index + 1)

getPrologueLines(lines, epilogue) == PrologueScan(lines, 0)

\* removePrologueLines applied to a subroutine s built from src[lo:hi]
removePrologueLines(s, lo, hi) ==
    LET prologueLines == getPrologueLines(Slice(Backing, lo, hi), s.epilogue)
    IN  [name |-> s.name,
         body |-> SubSeq(s.body, prologueLines + 1, Len(s.body)),
         epilogue |-> [Start |-> s.epilogue.Start - prologueLines,
                       End |-> s.epilogue.End - prologueLines]]

-----------------------------------------------------------------------------
(* Inputs.                                                                 *)

T1 == <<"3", "f", "o", "o">>     \* "3foo", decodes to "foo"
T2 == <<"3", "b", "a", "r">>     \* "3bar", decodes to "bar"
TBad == <<"9", "x">>             \* "9x": the length prefix overruns the token
L1 == <<"L", "1">>
L2 == <<"L", "2">>

SeqsUpTo(S, n) == UNION {[1..m -> S] : m \in 0..n}

\* several globals in every layout
LayoutLines == {Globl(T1), Globl(T2), Label(T1), Label(T2), Ret}

\* one global, its label under the raw operand or under the decoded name
OperandLines == {Globl(T1), Globl(TBad), Label(T1), Label(extractName(T1).val),
                 Mov, Ret}

\* one global with a body of jumps, local labels and frame instructions
BodyLines == {Label(L1), Label(L2), Jcc(L1), Jcc(L2), Jmp(L1), Ret, Pop, Push,
              Comment}

Header == <<Globl(T1), Label(T1)>>

\* listings of several globals, and of one global under either label
LayoutListings ==
    SeqsUpTo(LayoutLines, MaxLen) \cup SeqsUpTo(OperandLines, MaxTokLen)

\* listings of one global and its body
BodyListings == {Header \o b : b \in SeqsUpTo(BodyLines, MaxBody)}

\* cap(src) - len(src) of the slice the caller passes
Spares == {0, 1}

FragChars == {"a", "b", "1"}

Fragments == SeqsUpTo(FragChars, MaxFragLen)

\* decimal representation of n (strconv.Itoa)
RECURSIVE Itoa(_)
Itoa(n) == IF n < 10 THEN <<Digits[n + 1]>> ELSE Itoa(n \div 10) \o <<Digits[(n % 10) + 1]>>

\* the token of a sequence of fragments: each prefixed with its length
RECURSIVE Encode(_)
Encode(fs) ==
    IF fs = <<>> THEN <<>>
    ELSE Itoa(Len(Head(fs))) \o Head(fs) \o Encode(Tail(fs))

-----------------------------------------------------------------------------
(* segmentSource as a state machine.                                       *)

disabledForTesting == FALSE

DecIdle ==
    /\ frags = <<>>
    /\ token = <<>>
    /\ decoded = [ok |-> TRUE, val |-> <<>>]
    /\ dpc = "idle"

Start ==
    /\ pc = "start"
    /\ err = "none"
    /\ globals = <<>>
    /\ iglobal = 0
    /\ splitBegin = 0
    /\ lineRet = 0
    /\ bodyStart = 0
    /\ bodyEnd = 0
    /\ iters = 0
    /\ subroutines = <<>>
    /\ produced = <<>>
    /\ DecIdle

\* one global with a body; the listing may have a spare slot behind it
Init ==
    /\ src \in BodyListings
    /\ spare \in Spares
    /\ Start

\* layouts of directives, labels and returns; without a jump no window
\* is ever extended, so the spare slots are left out
InitLayout ==
    /\ src \in LayoutListings
    /\ spare = 0
    /\ Start

Panic(e) ==
    /\ pc' = "panic"
    /\ err' = e

\* lines 47-55: scan the directives, return at once when there are none
SplitOnGlobalsStep ==
    /\ pc = "start"
    /\ LET r == splitOnGlobals(src)
       IN  IF r.err # "none"
           THEN /\ Panic(r.err)
                /\ UNCHANGED <<globals, splitBegin>>
           ELSE /\ globals' = r.globals
                /\ err' = err
                /\ pc' = IF Len(r.globals) = 0 THEN "done" ELSE "segment"
                /\ splitBegin' = IF Len(r.globals) = 0 THEN splitBegin
                                 ELSE r.globals[1].dotGlobalLine
    /\ UNCHANGED <<src, spare, iglobal, lineRet, bodyStart, bodyEnd, iters,
                   subroutines, produced, frags, token, decoded, dpc>>

\* the end of the current global's segment
SplitEnd ==
    IF iglobal < Len(globals) - 1 THEN globals[iglobal + 2].dotGlobalLine
    ELSE Len(src)

\* lines 56-66, 84-85: search the segment for a return; a segment without
\* one is passed over, otherwise extractSubroutine starts on the first
SearchRet ==
    /\ pc = "segment"
    /\ iglobal < Len(globals)
    /\ LET rets == {i \in splitBegin..(SplitEnd - 1) : IsRet(At(src, i))}
       IN  IF rets = {}
           THEN /\ splitBegin' = SplitEnd
                /\ iglobal' = iglobal + 1
                /\ UNCHANGED <<pc, lineRet, bodyStart, bodyEnd, iters>>
           ELSE /\ lineRet' = CHOOSE i \in rets : \A j \in rets : i <= j
                /\ bodyStart' = globals[iglobal + 1].globalLabelLine + 1
                /\ bodyEnd' = lineRet' + 1
                /\ iters' = 0
                /\ pc' = "closure"
                /\ UNCHANGED <<splitBegin, iglobal>>
    /\ UNCHANGED <<src, spare, err, globals, subroutines, produced, frags, token,
                   decoded, dpc>>

\* lines 88-99: one pass of the closure loop
ClosureStep ==
    /\ pc = "closure"
    /\ IF disabledForTesting
       THEN /\ pc' = "build"
            /\ UNCHANGED <<err, bodyEnd, iters>>
       ELSE IF ~SliceOk(bodyStart, bodyEnd)
       THEN /\ Panic("SliceBounds")
            /\ UNCHANGED <<bodyEnd, iters>>
       ELSE LET m == getMissingLabels(Slice(Backing, bodyStart, bodyEnd))
            IN  IF ~m.ok
                THEN /\ Panic("UnmatchedLabel")
                     /\ UNCHANGED <<bodyEnd, iters>>
                ELSE IF m.missing = {}
                THEN /\ pc' = "build"
                     /\ UNCHANGED <<err, bodyEnd, iters>>
                ELSE /\ iters < MaxIters
                     /\ bodyEnd' = bodyEnd + getMissingLines(src, bodyEnd - 1, m.missing)
                     /\ iters' = iters + 1
                     /\ UNCHANGED <<pc, err>>
    /\ UNCHANGED <<src, spare, globals, iglobal, splitBegin, lineRet, bodyStart,
                   subroutines, produced, frags, token, decoded, dpc>>

\* lines 102-111, 68, 74: build the subroutine from the window, strip its
\* prologue, append it and move to the next global
BuildSubroutine ==
    /\ pc = "build"
    /\ IF ~SliceOk(bodyStart, bodyEnd)
       THEN /\ Panic("SliceBounds")
            /\ UNCHANGED <<subroutines, produced, iglobal, splitBegin>>
       ELSE LET window == Slice(Backing, bodyStart, bodyEnd)
                e == extractEpilogue(window)
            IN  IF ~e.ok
                THEN /\ Panic("MissingReturn")
                     /\ UNCHANGED <<subroutines, produced, iglobal, splitBegin>>
                ELSE LET subroutine == [name |-> globals[iglobal + 1].globalName,
                                        body |-> window,
                                        epilogue |-> e.epilogue]
                     IN  /\ subroutines' =
                              Append(subroutines,
                                     removePrologueLines(subroutine, bodyStart, bodyEnd))
                         /\ produced' =
                              Append(produced,
                                     [iglobal |-> iglobal,
                                      lineRet |-> lineRet,
                                      bodyStart |-> bodyStart,
                                      bodyEnd |-> bodyEnd,
                                      epilogue |-> e.epilogue,
                                      prologueLines |->
                                          getPrologueLines(window, e.epilogue)])
                         /\ iglobal' = iglobal + 1
                         /\ splitBegin' = SplitEnd
                         /\ pc' = "segment"
                         /\ err' = err
    /\ UNCHANGED <<src, spare, globals, lineRet, bodyStart, bodyEnd, iters, frags,
                   token, decoded, dpc>>

\* line 77: every global has been handled
Return ==
    /\ pc = "segment"
    /\ iglobal >= Len(globals)
    /\ pc' = "done"
    /\ UNCHANGED <<src, spare, err, globals, iglobal, splitBegin, lineRet,
                   bodyStart, bodyEnd, iters, subroutines, produced, frags, token,
                   decoded, dpc>>

Next == SplitOnGlobalsStep \/ SearchRet \/ ClosureStep \/ BuildSubroutine \/ Return

Spec == Init /\ [][Next]_vars

SpecLayout == InitLayout /\ [][Next]_vars

-----------------------------------------------------------------------------
(* The decoder on encoded fragments.                                       *)

SegIdle ==
    /\ src = <<>>
    /\ spare = 0
    /\ pc = "idle"
    /\ err = "none"
    /\ globals = <<>>
    /\ iglobal = 0
    /\ splitBegin = 0
    /\ lineRet = 0
    /\ bodyStart = 0
    /\ bodyEnd = 0
    /\ iters = 0
    /\ subroutines = <<>>
    /\ produced = <<>>

InitDecode ==
    /\ SegIdle
    /\ frags \in SeqsUpTo(Fragments, MaxFrags)
    /\ token = Encode(frags)
    /\ decoded = [ok |-> TRUE, val |-> <<>>]
    /\ dpc = "encoded"

\* extractName applied to the token
Decode ==
    /\ dpc = "encoded"
    /\ decoded' = extractName(token)
    /\ dpc' = "decoded"
    /\ UNCHANGED <<frags, token>>
    /\ UNCHANGED segVars

SpecDecode == InitDecode /\ [][Decode]_vars

-----------------------------------------------------------------------------
(* Vocabulary of the properties.                                           *)

Min(S) == CHOOSE x \in S : \A y \in S : x <= y
Max(S) == CHOOSE x \in S : \A y \in S : x >= y

\* indices of the .globl directives, and the i-th of them (0-based)
Directives == {i \in 0..(Len(src) - 1) : At(src, i).k = "globl"}
NthDirective(i) == CHOOSE d \in Directives : Cardinality({e \in Directives : e < d}) = i
OperandOf(d) == At(src, d).a

\* indices of the lines that begin with s + ":"
LinesBeginning(s) ==
    {i \in 0..(Len(src) - 1) : HasPrefix(Text(At(src, i)), s \o <<":">>)}

\* the window a produced subroutine was cut from
WindowOf(p) == Slice(Backing, p.bodyStart, p.bodyEnd)

\* labels that a jump of lines names and that no line of lines defines
Residual(lines) ==
    {lines[i].a : i \in {j \in 1..Len(lines) : lines[j].k \in {"jcc", "jmp"}}}
        \ {lines[i].a : i \in {j \in 1..Len(lines) : lines[j].k = "label"}}

DeclaredErrors == {"MissingLabel", "MissingReturn", "UnmatchedLabel"}

-----------------------------------------------------------------------------
(* C1.  N well-formed globals give N subroutines, in directive order.      *)

\* every directive has a decodable operand of its own, a label line after
\* it, and a return after that label with no label or directive in between;
\* the listing has no other label or return
WellFormedGlobals ==
    /\ \A d \in Directives : extractName(OperandOf(d)).ok
    /\ \A d, e \in Directives : d # e => OperandOf(d) # OperandOf(e)
    /\ \A d \in Directives :
         \E l \in LinesBeginning(OperandOf(d)) : \E r \in (l + 1)..(Len(src) - 1) :
            /\ d < l
            /\ IsRet(At(src, r))
            /\ \A k \in (l + 1)..(r - 1) : At(src, k).k \notin {"globl", "label"}
    /\ Cardinality({i \in 0..(Len(src) - 1) : At(src, i).k = "label"})
         = Cardinality(Directives)
    /\ Cardinality({i \in 0..(Len(src) - 1) : IsRet(At(src, i))})
         = Cardinality(Directives)

\* C1: for every listing of N .globl directives, each with a label definition
\* and a return of its own, segmentSource returns exactly N subroutines, the
\* i-th carrying the decoded name of the i-th directive, for every layout.
C1_Original ==
    WellFormedGlobals =>
        /\ pc # "panic"
        /\ pc = "done" =>
             /\ Len(subroutines) = Cardinality(Directives)
             /\ \A i \in 1..Len(subroutines) :
                  subroutines[i].name = extractName(OperandOf(NthDirective(i - 1))).val

-----------------------------------------------------------------------------
(* C2.  Closure of every produced subroutine.                              *)

\* C2: with the test-mode toggle off, every label that a jump of a produced
\* subroutine's body names is defined by a label line of that same body: the
\* residual set is empty over the final window and over the stored body.
C2_Closure ==
    ~disabledForTesting =>
        \A i \in 1..Len(produced) :
            /\ Residual(WindowOf(produced[i])) = {}
            /\ Residual(subroutines[i].body) = {}

\* C2 witness: a subroutine whose window was extended past its first return
C2_Witness ==
    \E i \in 1..Len(produced) :
        /\ produced[i].bodyEnd > produced[i].lineRet + 1
        /\ produced[i].bodyEnd <= Len(src)
        /\ \E j \in 1..Len(subroutines[i].body) : subroutines[i].body[j].k = "jcc"

-----------------------------------------------------------------------------
(* C3.  Decoder round trip.                                                *)

\* C3 as stated: for every sequence of fragments, empty or digit-first ones
\* included, extractName of the encoded token returns their concatenation.
C3_Original ==
    dpc = "decoded" => decoded.ok /\ decoded.val = Join(frags)

NoDigitFirst == \A i \in 1..Len(frags) : frags[i] = <<>> \/ ~IsDigit(frags[i][1])

\* C3 as amended: for every sequence of fragments none of which begins with
\* a digit (empty fragments allowed), extractName of the token built by
\* prefixing each fragment with its decimal length returns the concatenation
\* of the fragments.
C3_RoundTrip ==
    (dpc = "decoded" /\ NoDigitFirst) => decoded.ok /\ decoded.val = Join(frags)

\* C3 witness: two fragments, one empty and one holding a digit, were decoded
C3_Witness ==
    /\ dpc = "decoded"
    /\ NoDigitFirst
    /\ Len(frags) = 2
    /\ \E i \in 1..2 : frags[i] = <<>>
    /\ \E i \in 1..2 : Len(frags[i]) = 2 /\ IsDigit(frags[i][2])
    /\ decoded.val = Join(frags)

-----------------------------------------------------------------------------
(* C4.  How the label line of a global is located.                         *)

\* every directive's decoded name heads some line followed by ":"
LabelledByDecodedName ==
    \A d \in Directives :
        /\ extractName(OperandOf(d)).ok
        /\ LinesBeginning(extractName(OperandOf(d)).val) # {}

ScenarioA == <<Globl(T1), Label(T1), Mov, Ret>>

-----------------------------------------------------------------------------
(* C5.  A missing label fails fast.                                        *)

\* some directive's operand heads no label line
FaultyGlobal == \E d \in Directives : LinesBeginning(OperandOf(d)) = {}

\* C5: if any .globl directive, first, middle or last, names a symbol with no
\* label line, segmentation ends in the Missing Label Definition error state
\* and no subroutine at all has been produced.
C5_Original ==
    FaultyGlobal =>
        /\ subroutines = <<>>
        /\ pc \in {"start", "panic"}
        /\ pc = "panic" => err = "MissingLabel"

\* C5 for the listings whose operands the decoder accepts
C5_DecodableOperands ==
    (FaultyGlobal /\ \A d \in Directives : extractName(OperandOf(d)).ok) =>
        /\ subroutines = <<>>
        /\ pc \in {"start", "panic"}
        /\ pc = "panic" => err = "MissingLabel"

-----------------------------------------------------------------------------
(* C6.  A missing return.                                                  *)

\* a return lies between the global's label line and the next directive
HasReturn(g) ==
    LET stop == IF g < Len(globals) THEN globals[g + 1].dotGlobalLine ELSE Len(src)
    IN  \E r \in (globals[g].globalLabelLine + 1)..(stop - 1) : IsRet(At(src, r))

\* C6: when some global has no return between its label line and the next
\* global's directive (or the end of the listing), segmentation ends in the
\* Missing Return error state and returns no result.
C6_Original ==
    pc = "done" => \A g \in 1..Len(globals) : HasReturn(g)

-----------------------------------------------------------------------------
(* C7.  Bounds of the epilogue range.                                      *)

\* C7: for every produced subroutine, with r the index of the return in the
\* window the epilogue was computed on, 0 <= start <= r and end = r + 1
\* before the prologue is removed, and after a prologue of P lines is removed
\* both bounds are lower by P and designate the same lines of the body.
C7_Original ==
    \A i \in 1..Len(produced) :
        LET w == WindowOf(produced[i])
            r == Min({j \in 0..(Len(w) - 1) : IsRet(At(w, j))})
            e == produced[i].epilogue
            P == produced[i].prologueLines
        IN  /\ 0 <= e.Start
            /\ e.Start <= r
            /\ e.End = r + 1
            /\ subroutines[i].epilogue = [Start |-> e.Start - P, End |-> e.End - P]
            /\ Slice(subroutines[i].body, e.Start - P, e.End - P)
                 = Slice(w, e.Start, e.End)

-----------------------------------------------------------------------------
(* C8.  One extension of the window.                                       *)

\* the closure loop has just extended the window
Extension == pc = "closure" /\ pc' = "closure" /\ iters' = iters + 1

\* where the missing label m is first defined at or after line `from`
DefinedFrom(m, from) ==
    {i \in from..(Len(src) - 1) : At(src, i) = Label(m)}

JmpFrom(from) == {i \in from..(Len(src) - 1) : At(src, i).k = "jmp"}

-----------------------------------------------------------------------------
(* C9.  Termination of the closure loop.                                   *)

\* C9: the closure loop stops with a closed window or in a declared fatal
\* error state: bodyEnd strictly increases on every pass that finds a missing
\* label, and a pass that ends the run ends it in a declared error.
C9_Original ==
    [][ /\ Extension => bodyEnd' > bodyEnd
        /\ (pc = "closure" /\ pc' = "panic") => err' \in DeclaredErrors ]_vars

-----------------------------------------------------------------------------
(* C10.  Bounds of the window.                                             *)

\* C10: wherever extractSubroutine slices the listing, the window satisfies
\* labelLine + 1 <= bodyEnd <= len(src).
C10_Original ==
    pc \in {"closure", "build"} =>
        /\ globals[iglobal + 1].globalLabelLine + 1 <= bodyEnd
        /\ bodyEnd <= Len(src)

====
